---- MODULE Spec2Model ----
(***************************************************************************)
(* A model of port_scanner: the scan engine of src/src/lib.rs (scan_ip,    *)
(* probe_port, the cancellation flag and the progress counter) and the     *)
(* port range parser (PortRange::from_str, PortRange::to_vec).             *)
(*                                                                         *)
(* Atomics are modelled as sequentially consistent.  Every load of the     *)
(* cancellation flag is a step of its own; the fetch_add of the counter is *)
(* taken together with the end of the probe it follows, since nothing      *)
(* shared is read between the two.                                         *)
(***************************************************************************)
EXTENDS Integers, Sequences, FiniteSets, TLC

\* ------------------------------------------------------------------ bounds
MaxLen == 3          \* longest port sequence handed to scan_ip
MaxThreads == 2      \* largest worker count handed to scan_ip
MaxRetries == 1      \* largest retry count in the scan specification

\* ------------------------------------------------------- program constants
U8Max == 255         \* retries: u8
U16Max == 65535      \* start, end, port: u16

\* The port numbers scanned in the scan specification (two targets suffice
\* to have order, duplicates and mixed outcomes).
PortValues == {1, 2}

\* What a target port does to a connection attempt: always accepts, always
\* fails (refused, timed out, unreachable), or sometimes one, sometimes the
\* other.
Behaviours == {"accept", "refuse", "flaky"}
Stable == {"accept", "refuse"}

VARIABLES
    \* the arguments of scan_ip
    ports,              \* ports: &[u16]
    retries,            \* retries: u8
    parallel,           \* parallel: bool
    threads,            \* threads: usize
    hasCounter,         \* progress_counter.is_some()
    \* shared handles
    cancelled,          \* cancelled: Arc<AtomicBool>
    progress_counter,   \* the AtomicUsize behind progress_counter
    \* the environment
    world,              \* port -> behaviour of the target
    \* the invocation
    pc,                 \* "idle", "running", "returned"
    jpc,                \* index -> position of the closure run for ports[index]
    jleft,              \* index -> iterations left of `for _ in 0..attempts`
    slots,              \* index -> ScanResult the closure returned
    results,            \* the Vec<ScanResult> scan_ip returned
    history,            \* the lists earlier invocations returned
    \* instrumentation
    attempts,           \* connection attempts started in this invocation
    flagAtStart,        \* value of the flag when scan_ip was entered
    succeeded,          \* indices with a connection attempt that succeeded
    flagAtReturn        \* value of the flag when scan_ip returned

scanVars == <<ports, retries, parallel, threads, hasCounter, cancelled,
              progress_counter, world, pc, jpc, jleft, slots, results,
              history, attempts, flagAtStart, succeeded,
              flagAtReturn>>

VARIABLES
    \* PortRange::from_str and PortRange::to_vec
    text,               \* s: &str, as a sequence of characters
    ppc,                \* position in from_str; "off" when no parse runs
    parts,              \* parts: Vec<&str>
    startVal,           \* start: u16
    endVal,             \* end: u16
    parsed,             \* the Result<PortRange, String> from_str returned
    expanded            \* the Vec<u16> to_vec returned

parseVars == <<text, ppc, parts, startVal, endVal, parsed, expanded>>

VARIABLES
    \* resolve_target
    lookup,             \* what (target, 0).to_socket_addrs() gives
    rspc,               \* position in resolve_target; "off" when not called
    cursor,             \* addresses of the lookup taken so far
    ips,                \* ips: BTreeSet<IpAddr>, in its order
    resolved            \* the Result<Vec<IpAddr>> resolve_target returned

resolveVars == <<lookup, rspc, cursor, ips, resolved>>

VARIABLES
    \* main
    mpc,                \* position in main
    timeout_ms,         \* args.timeout_ms
    all_ips,            \* args.all_ips
    ips_to_scan,        \* ips_to_scan
    ipIdx,              \* index in ips_to_scan of the address of the loop
    done,               \* done: Arc<AtomicBool> of the address
    rpc,                \* position of the thread of start_progress_line
    log,                \* what was printed, one entry for each address
    exit                \* how main ended: "", "ok" or "error"

mainVars == <<mpc, timeout_ms, all_ips, ips_to_scan, ipIdx, done, rpc, log, exit>>

vars == <<scanVars, parseVars, resolveVars, mainVars>>

\* What the steps of scan_ip, of from_str and of resolve_target leave alone.
besidesScan == <<parseVars, resolveVars, mainVars>>
besidesParse == <<scanVars, resolveVars, mainVars>>
besidesResolve == <<scanVars, parseVars, mainVars>>

\* ----------------------------------------------------------------- helpers
RECURSIVE SeqsUpTo(_, _)
SeqsUpTo(S, n) ==
    IF n = 0 THEN {<<>>}
    ELSE LET shorter == SeqsUpTo(S, n - 1)
         IN  shorter \cup {Append(s, x) : s \in {t \in shorter : Len(t) = n - 1}, x \in S}

Indices == 1..Len(ports)

\* ScanResult { port, open }
\* (ScanResultAlwaysOpen: open set whatever the probe returned.)
ScanResultAlwaysOpen(port, open) == [port |-> port, open |-> TRUE]
ScanResult(port, open) == [port |-> port, open |-> open]

\* cancelled.load(Ordering::Relaxed)
\* (CancelLoadStale: a load that never sees the flag set.)
CancelLoadStale(flag) == FALSE
CancelLoad(flag) == flag

\* let attempts = retries as usize + 1;  (usize is at least 16 bits wide)
\* (AttemptsU8: the sum taken in u8, which wraps at 255.  AttemptsNoExtra:
\* the + 1 left out.  AttemptsOneMore: one pass too many.)
AttemptsU8(n) == (n + 1) % (U8Max + 1)
AttemptsOneMore(n) == (n + 2) % (U16Max + 1)
AttemptsNoExtra(n) == n
Attempts(n) == (n + 1) % (U16Max + 1)

\* rayon::ThreadPoolBuilder::new().num_threads(threads): the number of
\* closures the pool runs at once.  A pool thread runs one closure at a
\* time, to its end; the caller waits in pool.install.
\* (PoolPerPort: one thread spawned per port.)
PoolPerPort(k) == Len(ports)
PoolSize(k) == k

\* TcpStream::connect_timeout(&addr, timeout).is_ok()
ConnectOutcomes(port) ==
    CASE world[port] = "accept" -> {TRUE}
      [] world[port] = "refuse" -> {FALSE}
      [] OTHER -> {TRUE, FALSE}

\* results.sort_by_key(|r| r.port): a stable sort, here by insertion
RECURSIVE InsertByPort(_, _)
InsertByPort(sorted, r) ==
    IF sorted = <<>> THEN <<r>>
    ELSE IF sorted[Len(sorted)].port <= r.port THEN Append(sorted, r)
    ELSE Append(InsertByPort(SubSeq(sorted, 1, Len(sorted) - 1), r), sorted[Len(sorted)])

RECURSIVE SortFrom(_, _)
SortFrom(acc, rest) ==
    IF rest = <<>> THEN acc ELSE SortFrom(InsertByPort(acc, Head(rest)), Tail(rest))

\* (Unsorted: the sort left out.)
Unsorted(rs) == rs
SortByPort(rs) == SortFrom(<<>>, rs)

\* The closures that have been started and have not returned.
Running == {i \in Indices : jpc[i] \in {"entry", "loop", "checked", "connecting"}}
Todo == {i \in Indices : jpc[i] = "todo"}
Done == {i \in Indices : jpc[i] = "done"}

\* The probes in their blocking phase.
Connecting == {i \in Indices : jpc[i] = "connecting"}

\* ------------------------------------------------------------------- Init
InitScan ==
    /\ ports \in SeqsUpTo(PortValues, MaxLen)
    /\ retries \in 0..MaxRetries
    /\ world \in [PortValues -> Stable]
    /\ parallel = FALSE
    /\ threads = 1
    /\ hasCounter = FALSE
    /\ cancelled = FALSE
    /\ progress_counter = 0
    /\ pc = "idle"
    /\ jpc = [i \in Indices |-> "todo"]
    /\ jleft = [i \in Indices |-> 0]
    /\ slots = [i \in Indices |-> ScanResult(ports[i], FALSE)]
    /\ results = <<>>
    /\ history = <<>>
    /\ attempts = 0
    /\ flagAtStart = FALSE
    /\ succeeded = {}
    /\ flagAtReturn = FALSE

\* No parse is running.
ParseOff ==
    /\ text = <<>>
    /\ ppc = "off"
    /\ parts = <<>>
    /\ startVal = 0
    /\ endVal = 0
    /\ parsed = [ok |-> FALSE, start |-> 0, end |-> 0, err |-> ""]
    /\ expanded = <<>>

\* resolve_target is not called.
ResolveOff ==
    /\ lookup = [ok |-> FALSE, addrs |-> <<>>]
    /\ rspc = "off"
    /\ cursor = 0
    /\ ips = <<>>
    /\ resolved = [ok |-> FALSE, ips |-> <<>>, err |-> ""]

\* main is not running: scan_ip is called on its own.
MainOff ==
    /\ mpc = "off"
    /\ timeout_ms = 1
    /\ all_ips = FALSE
    /\ ips_to_scan = <<>>
    /\ ipIdx = 0
    /\ done = FALSE
    /\ rpc = "none"
    /\ log = <<>>
    /\ exit = ""

Init == InitScan /\ ParseOff /\ ResolveOff /\ MainOff

\* ---------------------------------------------------------------- actions
\* What one step leaves alone.
inputs == <<ports, retries, world>>
call == <<parallel, threads, hasCounter, pc, results, history, flagAtStart,
          flagAtReturn>>

\* ctrlc handler: cancelled.store(true, Ordering::SeqCst), at each interrupt
\* (HandlerToggles: a handler that flips the flag.)
HandlerToggles(flag) == ~flag
HandlerStore(flag) == TRUE

Handler ==
    /\ cancelled' = HandlerStore(cancelled)
    /\ UNCHANGED <<inputs, call, progress_counter, jpc, jleft, slots, attempts,
                   succeeded>>
    /\ UNCHANGED besidesScan

\* The interrupt that sets the flag: the handler's first run (its later runs
\* store true again).
Cancel ==
    /\ ~cancelled
    /\ Handler

\* scan_ip is entered: nothing probed yet, a fresh counter (or none).
Enter(par, k, prog) ==
    /\ parallel' = par
    /\ threads' = k
    /\ hasCounter' = prog
    /\ progress_counter' = 0
    /\ pc' = "running"
    /\ jpc' = [i \in Indices |-> "todo"]
    /\ jleft' = [i \in Indices |-> 0]
    /\ slots' = [i \in Indices |-> ScanResult(ports[i], FALSE)]
    /\ results' = <<>>
    /\ attempts' = 0
    /\ flagAtStart' = cancelled
    /\ succeeded' = {}
    /\ flagAtReturn' = FALSE
    /\ UNCHANGED <<inputs, cancelled>>
    /\ UNCHANGED <<parseVars, resolveVars>>

\* A call of scan_ip.
Invoke(par, k, prog) ==
    /\ pc = "idle"
    /\ history' = history
    /\ Enter(par, k, prog)
    /\ UNCHANGED mainVars

\* A second, independent call with the same address, ports and retries.
Reinvoke(par, k, prog) ==
    /\ pc = "returned"
    /\ history = <<>>
    /\ history' = Append(history, results)
    /\ Enter(par, k, prog)
    /\ UNCHANGED mainVars

\* if let Some(p) = &progress_counter { p.fetch_add(1) }
\* (FetchAddTwice: a port counted twice.)
FetchAddTwice(n) == n + 2
FetchAdd(n) == n + 1

\* The closure's tail for the port at index i: the counter, then
\* ScanResult { port, open }.
Finish(i, open) ==
    /\ progress_counter' = IF hasCounter THEN FetchAdd(progress_counter)
                           ELSE progress_counter
    /\ slots' = [slots EXCEPT ![i] = ScanResult(ports[i], open)]
    /\ jpc' = [jpc EXCEPT ![i] = "done"]
    /\ jleft' = [jleft EXCEPT ![i] = 0]

\* Entry of probe_port: the check before the loop, then `attempts` and the
\* loop's first bound check.
EnterProbe(i) ==
    IF CancelLoad(cancelled) \/ Attempts(retries) = 0
    THEN Finish(i, FALSE)
    ELSE /\ jpc' = [jpc EXCEPT ![i] = "loop"]
         /\ jleft' = [jleft EXCEPT ![i] = Attempts(retries)]
         /\ UNCHANGED <<progress_counter, slots>>

\* Sequential mode: the next port of ports.iter(), and probe_port's entry.
SeqTake(i) ==
    /\ pc = "running" /\ ~parallel
    /\ Running = {}
    /\ i \in Todo /\ \A j \in Todo : i <= j
    /\ EnterProbe(i)
    /\ UNCHANGED <<inputs, call, cancelled, attempts, succeeded>>
    /\ UNCHANGED besidesScan

\* Parallel mode: the closure's own check
\*   let open = if cancelled.load() { false } else { probe_port(..) }
\* (ParClosureSkipsInverted: the branches exchanged.)
ParClosureSkipsInverted(flag) == ~CancelLoad(flag)
ParClosureSkips(flag) == CancelLoad(flag)

\* Parallel mode: a free pool thread starts the closure for a port not yet
\* taken (par_iter hands the ports out in no particular order).
ParTake(i) ==
    /\ pc = "running" /\ parallel
    /\ Cardinality(Running) < PoolSize(threads)
    /\ i \in Todo
    /\ IF ParClosureSkips(cancelled)
       THEN Finish(i, FALSE)
       ELSE /\ jpc' = [jpc EXCEPT ![i] = "entry"]
            /\ UNCHANGED <<progress_counter, slots, jleft>>
    /\ UNCHANGED <<inputs, call, cancelled, attempts, succeeded>>
    /\ UNCHANGED besidesScan

\* Parallel mode: probe_port's entry, after the closure's check.
ParEnter(i) ==
    /\ pc = "running"
    /\ i \in Indices /\ jpc[i] = "entry"
    /\ EnterProbe(i)
    /\ UNCHANGED <<inputs, call, cancelled, attempts, succeeded>>
    /\ UNCHANGED besidesScan

\* One pass of `for _ in 0..attempts`: the check of the flag.
LoopCheck(i) ==
    /\ pc = "running"
    /\ i \in Indices /\ jpc[i] = "loop"
    /\ IF CancelLoad(cancelled)
       THEN Finish(i, FALSE)
       ELSE /\ jpc' = [jpc EXCEPT ![i] = "checked"]
            /\ UNCHANGED <<progress_counter, slots, jleft>>
    /\ UNCHANGED <<inputs, call, cancelled, attempts, succeeded>>
    /\ UNCHANGED besidesScan

\* TcpStream::connect_timeout(&addr, timeout) is called: a connection attempt
\* starts.  The flag is not read again between the check and the call.
ConnectStart(i) ==
    /\ pc = "running"
    /\ i \in Indices /\ jpc[i] = "checked"
    /\ jpc' = [jpc EXCEPT ![i] = "connecting"]
    /\ attempts' = attempts + 1
    /\ UNCHANGED <<progress_counter, slots, jleft>>
    /\ UNCHANGED <<inputs, call, cancelled, succeeded>>
    /\ UNCHANGED besidesScan

\* connect_timeout returns: `return true`, or the next pass of the loop, or
\* the `false` after the loop.
ConnectReturn(i, ok) ==
    /\ pc = "running"
    /\ i \in Indices /\ jpc[i] = "connecting"
    /\ ok \in ConnectOutcomes(ports[i])
    /\ IF ok
       THEN Finish(i, TRUE)
       ELSE IF jleft[i] - 1 = 0
       THEN Finish(i, FALSE)
       ELSE /\ jpc' = [jpc EXCEPT ![i] = "loop"]
            /\ jleft' = [jleft EXCEPT ![i] = jleft[i] - 1]
            /\ UNCHANGED <<progress_counter, slots>>
    /\ succeeded' = IF ok THEN succeeded \cup {i} ELSE succeeded
    /\ UNCHANGED <<inputs, call, cancelled, attempts>>
    /\ UNCHANGED besidesScan

\* collect (the closures' values in the order of the input),
\* results.sort_by_key(|r| r.port), return.
Return ==
    /\ pc = "running"
    /\ Done = Indices
    /\ results' = SortByPort(slots)
    /\ pc' = "returned"
    /\ flagAtReturn' = cancelled
    /\ UNCHANGED <<inputs, parallel, threads, hasCounter, history,
                   flagAtStart, cancelled, progress_counter, jpc, jleft,
                   slots, attempts, succeeded>>
    /\ UNCHANGED besidesScan

\* ------------------------------------------------------- the range parser
\* The characters of the texts parsed here.
Digits == {"0", "1", "2", "3", "4", "5", "6", "7", "8", "9"}
Whitespace == {" "}

DigitVal(c) ==
    CASE c = "0" -> 0 [] c = "1" -> 1 [] c = "2" -> 2 [] c = "3" -> 3
      [] c = "4" -> 4 [] c = "5" -> 5 [] c = "6" -> 6 [] c = "7" -> 7
      [] c = "8" -> 8 [] c = "9" -> 9

\* s.split('-').collect(): one part more than there are separators
RECURSIVE SplitFrom(_, _, _)
SplitFrom(pieces, cur, rest) ==
    IF rest = <<>> THEN Append(pieces, cur)
    ELSE IF Head(rest) = "-" THEN SplitFrom(Append(pieces, cur), <<>>, Tail(rest))
    ELSE SplitFrom(pieces, Append(cur, Head(rest)), Tail(rest))

Split(s) == SplitFrom(<<>>, <<>>, s)

\* str::trim(): white space off both ends
RECURSIVE TrimStart(_)
TrimStart(s) ==
    IF s # <<>> /\ Head(s) \in Whitespace THEN TrimStart(Tail(s)) ELSE s

RECURSIVE TrimEnd(_)
TrimEnd(s) ==
    IF s # <<>> /\ s[Len(s)] \in Whitespace
    THEN TrimEnd(SubSeq(s, 1, Len(s) - 1)) ELSE s

Trim(s) == TrimEnd(TrimStart(s))

\* str::parse::<u16>(): an optional '+', then digits, accumulated with
\* checked_mul(10) and checked_add(digit)
ParseOk(v) == [ok |-> TRUE, val |-> v]
ParseErr == [ok |-> FALSE, val |-> 0]

RECURSIVE Accumulate(_, _)
Accumulate(acc, ds) ==
    IF ds = <<>> THEN ParseOk(acc)
    ELSE IF Head(ds) \notin Digits THEN ParseErr
    ELSE IF acc * 10 + DigitVal(Head(ds)) > U16Max THEN ParseErr
    ELSE Accumulate(acc * 10 + DigitVal(Head(ds)), Tail(ds))

ParseU16(s) ==
    LET ds == IF s # <<>> /\ Head(s) = "+" THEN Tail(s) ELSE s
    IN  IF ds = <<>> THEN ParseErr ELSE Accumulate(0, ds)

\* The Err values of from_str.
ErrFormat == "ports must be in format start-end (example: 1-1000)"
ErrStart == "start port must be a number"
ErrEnd == "end port must be a number"
ErrRange == "port range must be between 1 and 65535"
ErrOrder == "start port must be <= end port"

Ok(a, b) == [ok |-> TRUE, start |-> a, end |-> b, err |-> ""]
Err(msg) == [ok |-> FALSE, start |-> 0, end |-> 0, err |-> msg]

\* (self.start..=self.end).collect()
\* (ToVecExclusive: start..end, without the end.)
ToVecExclusive(a, b) == [i \in 1..(b - a) |-> a + i - 1]
ToVec(a, b) == [i \in 1..(b - a + 1) |-> a + i - 1]

\* if start == 0 || end == 0 { Err } ; if start > end { Err } ; Ok
\* (ValidateNoZeroCheck: the check for 0 left out.)
ValidateNoZeroCheck(a, b) ==
    IF a > b THEN Err(ErrOrder) ELSE Ok(a, b)
Validate(a, b) ==
    IF a = 0 \/ b = 0 THEN Err(ErrRange)
    ELSE IF a > b THEN Err(ErrOrder)
    ELSE Ok(a, b)

\* let parts = s.split('-').collect(); if parts.len() != 2 { return Err }
FromStrSplit ==
    /\ ppc = "start"
    /\ parts' = Split(text)
    /\ IF Len(Split(text)) # 2
       THEN /\ parsed' = Err(ErrFormat)
            /\ ppc' = "failed"
       ELSE /\ parsed' = parsed
            /\ ppc' = "split"
    /\ UNCHANGED <<text, startVal, endVal, expanded>>
    /\ UNCHANGED besidesParse

\* let start: u16 = parts[0].trim().parse().map_err(..)?
FromStrStart ==
    /\ ppc = "split"
    /\ LET r == ParseU16(Trim(parts[1]))
       IN  IF r.ok
           THEN /\ startVal' = r.val
                /\ parsed' = parsed
                /\ ppc' = "start_parsed"
           ELSE /\ startVal' = startVal
                /\ parsed' = Err(ErrStart)
                /\ ppc' = "failed"
    /\ UNCHANGED <<text, parts, endVal, expanded>>
    /\ UNCHANGED besidesParse

\* let end: u16 = parts[1].trim().parse().map_err(..)?
FromStrEnd ==
    /\ ppc = "start_parsed"
    /\ LET r == ParseU16(Trim(parts[2]))
       IN  IF r.ok
           THEN /\ endVal' = r.val
                /\ parsed' = parsed
                /\ ppc' = "end_parsed"
           ELSE /\ endVal' = endVal
                /\ parsed' = Err(ErrEnd)
                /\ ppc' = "failed"
    /\ UNCHANGED <<text, parts, startVal, expanded>>
    /\ UNCHANGED besidesParse

\* The checks of start and end, and Ok(PortRange { start, end }).
FromStrCheck ==
    /\ ppc = "end_parsed"
    /\ parsed' = Validate(startVal, endVal)
    /\ ppc' = IF Validate(startVal, endVal).ok THEN "ok" ELSE "failed"
    /\ UNCHANGED <<text, parts, startVal, endVal, expanded>>
    /\ UNCHANGED besidesParse

\* to_vec on the PortRange from_str returned.
ToVecCall ==
    /\ ppc = "ok"
    /\ expanded' = ToVec(parsed.start, parsed.end)
    /\ ppc' = "expanded"
    /\ UNCHANGED <<text, parts, startVal, endVal, parsed>>
    /\ UNCHANGED besidesParse

\* from_str has returned (and, on Ok, to_vec too).
ParseDone == ppc \in {"failed", "expanded"}

\* The decimal text of a number, as `{}` prints it.
RECURSIVE Decimal(_)
Decimal(n) ==
    LET d == CHOOSE c \in Digits : DigitVal(c) = n % 10
    IN  IF n < 10 THEN <<d>> ELSE Append(Decimal(n \div 10), d)

RangeText(a, b) == Decimal(a) \o <<"-">> \o Decimal(b)

\* The texts parsed: every text of at most MaxTextLen characters over a
\* small alphabet, the texts "a-b" of the numbers below, and the texts the
\* tests and the specification name.
MaxTextLen == 4
Alphabet == {"0", "1", "7", "-", "a", " ", "+"}
Numbers == 0..12 \cup {99, 100, 999, 1000, 65534, 65535, 65536, 70000, 99999}
Named == {
    <<"0", "-", "1", "0">>,
    <<"1", "-", "0">>,
    <<"1", "0", "0", "-", "1">>,
    <<"a", "b", "c", "-", "1", "0">>,
    <<"1", "0">>,
    <<"1", "0", "-", "2", "0", "-", "3", "0">>,
    <<"1", "-", "1", "0", "0", "0">>,
    <<" ", "1", " ", "-", " ", "5", " ">>,
    <<"+", "1", "-", "+", "6", "5", "5", "3", "5">>,
    <<"0", "0", "7", "-", "0", "0", "8">> }

RangeTexts == [a \in Numbers |-> [b \in Numbers |-> RangeText(a, b)]]

Texts ==
    SeqsUpTo(Alphabet, MaxTextLen)
        \cup {RangeTexts[a][b] : a \in Numbers, b \in Numbers}
        \cup Named

\* Nothing is being scanned.
ScanOff ==
    /\ ports = <<>>
    /\ retries = 0
    /\ world = [p \in PortValues |-> "refuse"]
    /\ parallel = FALSE
    /\ threads = 1
    /\ hasCounter = FALSE
    /\ cancelled = FALSE
    /\ progress_counter = 0
    /\ pc = "idle"
    /\ jpc = <<>>
    /\ jleft = <<>>
    /\ slots = <<>>
    /\ results = <<>>
    /\ history = <<>>
    /\ attempts = 0
    /\ flagAtStart = FALSE
    /\ succeeded = {}
    /\ flagAtReturn = FALSE

InitParse ==
    /\ text \in Texts
    /\ ppc = "start"
    /\ parts = <<>>
    /\ startVal = 0
    /\ endVal = 0
    /\ parsed = [ok |-> FALSE, start |-> 0, end |-> 0, err |-> ""]
    /\ expanded = <<>>

ParseNext ==
    \/ FromStrSplit
    \/ FromStrStart
    \/ FromStrEnd
    \/ FromStrCheck
    \/ ToVecCall

ParseInit == InitParse /\ ScanOff /\ ResolveOff /\ MainOff

\* "text".parse::<PortRange>() and to_vec, for every text of Texts.
ParseSpec == ParseInit /\ [][ParseNext]_vars

\* ------------------------------------------------------------ the resolver
\* IpAddr: V4 or V6 and the bits of the address.
MaxAddrs == 3        \* longest sequence to_socket_addrs() gives
AddrBits == {1, 2}

Addresses == {[v |-> f, bits |-> b] : f \in {"V4", "V6"}, b \in AddrBits}

\* Ord of IpAddr: the variants in the order of their declaration (V4 before
\* V6), and within a variant the octets, most significant first.
AddrLess(a, b) ==
    \/ a.v = "V4" /\ b.v = "V6"
    \/ a.v = b.v /\ a.bits < b.bits

\* ips.insert(addr.ip()) on a BTreeSet, which is kept in the order of Ord and
\* holds no value twice.
\* (BTreeInsertDup: an insert that keeps a value it already holds.)
BTreeInsertDup(set, a) ==
    LET below == SelectSeq(set, LAMBDA x : AddrLess(x, a))
        above == SelectSeq(set, LAMBDA x : ~AddrLess(x, a))
    IN  below \o <<a>> \o above
BTreeInsert(set, a) ==
    IF \E i \in 1..Len(set) : set[i] = a THEN set
    ELSE LET below == SelectSeq(set, LAMBDA x : AddrLess(x, a))
             above == SelectSeq(set, LAMBDA x : AddrLess(a, x))
         IN  below \o <<a>> \o above

ErrLookup == "failed to resolve target"
ErrNoAddress == "no ip addresses found for target"

ResolveOk(v) == [ok |-> TRUE, ips |-> v, err |-> ""]
ResolveErr(msg) == [ok |-> FALSE, ips |-> <<>>, err |-> msg]

\* let addrs = (target, 0).to_socket_addrs().with_context(..)?;
\* let mut ips = BTreeSet::new();
ResolveLookup ==
    /\ rspc = "start"
    /\ IF lookup.ok
       THEN /\ rspc' = "insert"
            /\ cursor' = 0
            /\ ips' = <<>>
            /\ UNCHANGED resolved
       ELSE /\ rspc' = "failed"
            /\ resolved' = ResolveErr(ErrLookup)
            /\ UNCHANGED <<cursor, ips>>
    /\ UNCHANGED lookup
    /\ UNCHANGED besidesResolve

\* for addr in addrs { ips.insert(addr.ip()); }
ResolveInsert ==
    /\ rspc = "insert"
    /\ cursor < Len(lookup.addrs)
    /\ ips' = BTreeInsert(ips, lookup.addrs[cursor + 1])
    /\ cursor' = cursor + 1
    /\ UNCHANGED <<lookup, rspc, resolved>>
    /\ UNCHANGED besidesResolve

\* if ips.is_empty() { bail!(..) }  Ok(ips.into_iter().collect())
ResolveCollect ==
    /\ rspc = "insert"
    /\ cursor = Len(lookup.addrs)
    /\ IF ips = <<>>
       THEN /\ rspc' = "failed"
            /\ resolved' = ResolveErr(ErrNoAddress)
       ELSE /\ rspc' = "ok"
            /\ resolved' = ResolveOk(ips)
    /\ UNCHANGED <<lookup, cursor, ips>>
    /\ UNCHANGED besidesResolve

\* What to_socket_addrs() can give: an error, or the addresses of the target
\* in any order and any number of times.
Lookups ==
    {[ok |-> FALSE, addrs |-> <<>>]}
        \cup {[ok |-> TRUE, addrs |-> a] : a \in SeqsUpTo(Addresses, MaxAddrs)}

InitResolve ==
    /\ lookup \in Lookups
    /\ rspc = "start"
    /\ cursor = 0
    /\ ips = <<>>
    /\ resolved = ResolveErr("")

ResolveNext ==
    \/ ResolveLookup
    \/ ResolveInsert
    \/ ResolveCollect

ResolveInit == InitResolve /\ ScanOff /\ ParseOff /\ MainOff

ResolveSpec == ResolveInit /\ [][ResolveNext]_vars

\* ------------------------------------------------------------------- main
\* What the steps of main set in the state of scan_ip besides the call.
scanState == <<jpc, jleft, slots, results, history, attempts, flagAtStart,
               succeeded, flagAtReturn, pc>>
config == <<retries, world, parallel, hasCounter>>

\* args.threads.unwrap_or(default_threads).max(1)
AtLeastOne(k) == IF k < 1 THEN 1 ELSE k

\* Args::parse(): the ports argument went through from_str; a text it
\* rejects ends the process with clap's error.
MainArgs ==
    /\ mpc = "args"
    /\ ppc \in {"ok", "failed"}
    /\ IF parsed.ok
       THEN mpc' = "timeout" /\ exit' = exit
       ELSE mpc' = "exit" /\ exit' = "error"
    /\ UNCHANGED <<timeout_ms, all_ips, ips_to_scan, ipIdx, done, rpc, log>>
    /\ UNCHANGED <<scanVars, parseVars, resolveVars>>

\* if args.timeout_ms == 0 { bail! }, threads, and the call of resolve_target
\* (TimeoutUnchecked: the check left out.)
TimeoutUnchecked(ms) == FALSE
TimeoutIsZero(ms) == ms = 0

MainTimeout ==
    /\ mpc = "timeout"
    /\ IF TimeoutIsZero(timeout_ms)
       THEN /\ mpc' = "exit" /\ exit' = "error"
            /\ UNCHANGED <<threads, rspc>>
       ELSE /\ mpc' = "resolve" /\ exit' = exit
            /\ threads' = AtLeastOne(threads)
            /\ rspc' = "start"
    /\ UNCHANGED <<timeout_ms, all_ips, ips_to_scan, ipIdx, done, rpc, log>>
    /\ UNCHANGED <<lookup, cursor, ips, resolved>>
    /\ UNCHANGED <<ports, cancelled, progress_counter, scanState, config>>
    /\ UNCHANGED parseVars

\* resolve_target(..)? ; ips_to_scan ; args.ports.to_vec() ; the flag and
\* ctrlc::set_handler(..)? ; the banner.  Up to here the process has one
\* thread and no handler.
MainSetup(handlerOk) ==
    /\ mpc = "resolve"
    /\ rspc \in {"ok", "failed"}
    /\ IF ~resolved.ok \/ ~handlerOk
       THEN /\ mpc' = "exit" /\ exit' = "error"
            /\ UNCHANGED <<ips_to_scan, ipIdx, ports, jpc, jleft, slots>>
       ELSE /\ mpc' = "loop" /\ exit' = exit
            /\ ips_to_scan' = IF all_ips THEN resolved.ips ELSE <<resolved.ips[1]>>
            /\ ipIdx' = 1
            /\ ports' = ToVec(parsed.start, parsed.end)
            /\ jpc' = [i \in 1..Len(ports') |-> "todo"]
            /\ jleft' = [i \in 1..Len(ports') |-> 0]
            /\ slots' = [i \in 1..Len(ports') |-> ScanResult(ports'[i], FALSE)]
    /\ UNCHANGED <<timeout_ms, all_ips, done, rpc, log>>
    /\ UNCHANGED <<cancelled, progress_counter, threads, config, results,
                   history, attempts, flagAtStart, succeeded, flagAtReturn, pc>>
    /\ UNCHANGED <<parseVars, resolveVars>>

\* for ip in ips_to_scan: the next address with a counter and a done flag of
\* its own and, with args.progress, the thread of start_progress_line; or
\* the Ok(()) after the loop.
MainLoopHead ==
    /\ mpc = "loop"
    /\ IF ipIdx > Len(ips_to_scan)
       THEN /\ mpc' = "exit" /\ exit' = "ok"
            /\ UNCHANGED <<progress_counter, done, rpc>>
       ELSE /\ mpc' = "call" /\ exit' = exit
            /\ progress_counter' = 0
            /\ done' = FALSE
            /\ rpc' = IF hasCounter THEN "load_done" ELSE "none"
    /\ UNCHANGED <<timeout_ms, all_ips, ips_to_scan, ipIdx, log>>
    /\ UNCHANGED <<ports, cancelled, threads, scanState, config>>
    /\ UNCHANGED <<parseVars, resolveVars>>

\* let results = scan_ip(ip, &ports, .., cancelled.clone());
MainScanCall ==
    /\ mpc = "call"
    /\ mpc' = "scanning"
    /\ Enter(parallel, threads, hasCounter)
    /\ UNCHANGED <<timeout_ms, all_ips, ips_to_scan, ipIdx, done, rpc, log, exit>>
    /\ UNCHANGED history

\* scan_ip has returned: done.store(true)
MainDoneStore ==
    /\ mpc = "scanning"
    /\ pc = "returned"
    /\ done' = TRUE
    /\ mpc' = "join"
    /\ UNCHANGED <<timeout_ms, all_ips, ips_to_scan, ipIdx, rpc, log, exit>>
    /\ UNCHANGED <<scanVars, parseVars, resolveVars>>

\* if let Some(h) = progress_handle { h.join() }: returns when there is no
\* thread or the thread has ended.
\* (JoinedAtOnce: a join that does not wait.)
JoinedAtOnce(r) == TRUE
Joined(r) == r \in {"none", "exited"}

MainJoin ==
    /\ mpc = "join"
    /\ Joined(rpc)
    /\ mpc' = "label"
    /\ UNCHANGED <<timeout_ms, all_ips, ips_to_scan, ipIdx, done, rpc, log, exit>>
    /\ UNCHANGED <<scanVars, parseVars, resolveVars>>

\* The line "scan cancelled (results may be incomplete)" or "scan complete",
\* after a load of the flag, and print_results.
MainReport ==
    /\ mpc = "label"
    /\ log' = Append(log, [ip |-> ips_to_scan[ipIdx],
                           label |-> IF CancelLoad(cancelled) THEN "cancelled"
                                     ELSE "complete",
                           results |-> results])
    /\ mpc' = "check"
    /\ UNCHANGED <<timeout_ms, all_ips, ips_to_scan, ipIdx, done, rpc, exit>>
    /\ UNCHANGED <<scanVars, parseVars, resolveVars>>

\* if cancelled.load() { return Ok(()) }, a second load of the flag.
\* (StopsNever: the check left out.)
StopsNever(flag) == FALSE
Stops(flag) == CancelLoad(flag)

MainCheck ==
    /\ mpc = "check"
    /\ IF Stops(cancelled)
       THEN /\ mpc' = "exit" /\ exit' = "ok"
            /\ UNCHANGED ipIdx
       ELSE /\ mpc' = "loop" /\ exit' = exit
            /\ ipIdx' = ipIdx + 1
    /\ UNCHANGED <<timeout_ms, all_ips, ips_to_scan, done, rpc, log>>
    /\ UNCHANGED <<scanVars, parseVars, resolveVars>>

\* The handler of ctrlc runs: from set_handler until the process ends.
Interrupt ==
    /\ mpc \in {"loop", "call", "scanning", "join", "label", "check"}
    /\ Handler

\* The thread of start_progress_line:
\*   while !done.load() && !cancelled.load() { scanned.load(); print; sleep }
\*   eprintln!()
\* (DoneLoadStale: a load that never sees done set.)
DoneLoadStale(flag) == FALSE
DoneLoad(flag) == flag

ReporterLoadDone ==
    /\ rpc = "load_done"
    /\ rpc' = IF DoneLoad(done) THEN "exited" ELSE "load_cancelled"
    /\ UNCHANGED <<mpc, timeout_ms, all_ips, ips_to_scan, ipIdx, done, log, exit>>
    /\ UNCHANGED <<scanVars, parseVars, resolveVars>>

ReporterLoadCancelled ==
    /\ rpc = "load_cancelled"
    /\ rpc' = IF CancelLoad(cancelled) THEN "exited" ELSE "show"
    /\ UNCHANGED <<mpc, timeout_ms, all_ips, ips_to_scan, ipIdx, done, log, exit>>
    /\ UNCHANGED <<scanVars, parseVars, resolveVars>>

ReporterShow ==
    /\ rpc = "show"
    /\ progress_counter \in 0..Len(ports)
    /\ rpc' = "load_done"
    /\ UNCHANGED <<mpc, timeout_ms, all_ips, ips_to_scan, ipIdx, done, log, exit>>
    /\ UNCHANGED <<scanVars, parseVars, resolveVars>>

\* The command lines of the runs: a ports argument, a timeout, --threads,
\* the switches, and what the lookup of the target gives.  args.progress is
\* a switch whose default is true, so it is true in every run.
MainTexts ==
    {RangeText(1, 2), RangeText(2, 2), RangeText(0, 2), RangeText(2, 1), <<"a">>}
MainTimeouts == {0, 1}
MainThreads == {0, 1, 2}
MainRetries == {0, 1}
MainLookups ==
    LET a == [v |-> "V4", bits |-> 1]
        b == [v |-> "V6", bits |-> 1]
    IN  {[ok |-> FALSE, addrs |-> <<>>],
         [ok |-> TRUE, addrs |-> <<>>],
         [ok |-> TRUE, addrs |-> <<a>>],
         [ok |-> TRUE, addrs |-> <<b, a, b>>]}

InitMain ==
    /\ mpc = "args"
    /\ timeout_ms \in MainTimeouts
    /\ all_ips \in BOOLEAN
    /\ ips_to_scan = <<>>
    /\ ipIdx = 0
    /\ done = FALSE
    /\ rpc = "none"
    /\ log = <<>>
    /\ exit = ""
    /\ text \in MainTexts
    /\ ppc = "start"
    /\ parts = <<>>
    /\ startVal = 0
    /\ endVal = 0
    /\ parsed = [ok |-> FALSE, start |-> 0, end |-> 0, err |-> ""]
    /\ expanded = <<>>
    /\ lookup \in MainLookups
    /\ rspc = "off"
    /\ cursor = 0
    /\ ips = <<>>
    /\ resolved = ResolveErr("")
    /\ ports = <<>>
    /\ retries \in MainRetries
    /\ world \in {[p \in PortValues |-> b] : b \in Behaviours}
    /\ parallel \in BOOLEAN
    /\ threads \in MainThreads
    /\ hasCounter = TRUE
    /\ cancelled = FALSE
    /\ progress_counter = 0
    /\ pc = "idle"
    /\ jpc = <<>>
    /\ jleft = <<>>
    /\ slots = <<>>
    /\ results = <<>>
    /\ history = <<>>
    /\ attempts = 0
    /\ flagAtStart = FALSE
    /\ succeeded = {}
    /\ flagAtReturn = FALSE

\* The steps of the main thread, of the thread of start_progress_line, and
\* of the threads that probe.
MainThread ==
    \/ FromStrSplit
    \/ FromStrStart
    \/ FromStrEnd
    \/ FromStrCheck
    \/ MainArgs
    \/ MainTimeout
    \/ ResolveLookup
    \/ ResolveInsert
    \/ ResolveCollect
    \/ \E handlerOk \in BOOLEAN : MainSetup(handlerOk)
    \/ MainLoopHead
    \/ MainScanCall
    \/ MainDoneStore
    \/ MainJoin
    \/ MainReport
    \/ MainCheck

Reporter ==
    \/ ReporterLoadDone
    \/ ReporterLoadCancelled
    \/ ReporterShow

\* ------------------------------------------------------ specifications
Probing ==
    \/ \E i \in 1..MaxLen : SeqTake(i)
    \/ \E i \in 1..MaxLen : ParTake(i)
    \/ \E i \in 1..MaxLen : ParEnter(i)
    \/ \E i \in 1..MaxLen : LoopCheck(i)
    \/ \E i \in 1..MaxLen : ConnectStart(i)
    \/ \E i \in 1..MaxLen, ok \in BOOLEAN : ConnectReturn(i, ok)
    \/ Return

Next ==
    \/ Cancel
    \/ \E par \in BOOLEAN, k \in 1..MaxThreads : Invoke(par, k, TRUE)
    \/ Probing

\* One call of scan_ip as main makes it (with a progress counter), for every
\* port sequence, mode, worker count and moment of cancellation, against
\* targets that answer the same each time.  Calls without a counter are in
\* EquivSpec and ProbeSpec.
Spec == Init /\ [][Next]_vars

\* Two calls of scan_ip in a row with the same ports and retries, each in a
\* mode and with a worker count of its own, the first without a progress
\* counter and the second with one, and no cancellation.
EquivNext ==
    \/ \E par \in BOOLEAN, k \in 1..MaxThreads : Invoke(par, k, FALSE)
    \/ Probing
    \/ \E par \in BOOLEAN, k \in 1..MaxThreads : Reinvoke(par, k, TRUE)

EquivSpec == Init /\ [][EquivNext]_vars

\* probe_port alone: scan_ip in sequential mode on one port, for every retry
\* count of a u8 and every behaviour of the target.
ProbeInit ==
    /\ ports \in {<<p>> : p \in PortValues}
    /\ retries \in 0..U8Max
    /\ world \in {[p \in PortValues |-> b] : b \in Behaviours}
    /\ parallel = FALSE
    /\ threads = 1
    /\ hasCounter = FALSE
    /\ cancelled = FALSE
    /\ progress_counter = 0
    /\ pc = "idle"
    /\ jpc = [i \in Indices |-> "todo"]
    /\ jleft = [i \in Indices |-> 0]
    /\ slots = [i \in Indices |-> ScanResult(ports[i], FALSE)]
    /\ results = <<>>
    /\ history = <<>>
    /\ attempts = 0
    /\ flagAtStart = FALSE
    /\ succeeded = {}
    /\ flagAtReturn = FALSE
    /\ ParseOff
    /\ ResolveOff
    /\ MainOff

ProbeNext ==
    \/ Cancel
    \/ \E prog \in BOOLEAN : Invoke(FALSE, 1, prog)
    \/ \E i \in 1..MaxLen : SeqTake(i)
    \/ \E i \in 1..MaxLen : LoopCheck(i)
    \/ \E i \in 1..MaxLen : ConnectStart(i)
    \/ \E i \in 1..MaxLen, ok \in BOOLEAN : ConnectReturn(i, ok)
    \/ Return

ProbeSpec == ProbeInit /\ [][ProbeNext]_vars

\* A run of main, for every command line of InitMain and every moment of the
\* interrupt.
MainNext ==
    \/ MainThread
    \/ Reporter
    \/ Probing
    \/ Interrupt

MainSpec == InitMain /\ [][MainNext]_vars

\* The same under a fair scheduler: each thread that can take a step takes
\* one eventually, and a connection attempt ends (connect_timeout returns
\* within its timeout).  Nothing makes the interrupt happen.
MainFairSpec ==
    /\ InitMain
    /\ [][MainNext]_vars
    /\ WF_vars(MainThread)
    /\ WF_vars(Reporter)
    /\ WF_vars(Probing)

\* ------------------------------------------------------------------ claims
SortedByPort(rs) == \A i \in 1..(Len(rs) - 1) : rs[i].port <= rs[i + 1].port
Occurrences(seq, x) == Cardinality({i \in DOMAIN seq : seq[i] = x})
ResultPorts(rs) == [i \in DOMAIN rs |-> rs[i].port]

\* C1: the list scan_ip returns holds exactly one ScanResult per port of the
\* input sequence (as many results for a port number as the sequence has
\* occurrences of it, none missing, none added) and is ascending by port, in
\* both modes, for every worker count, completion order and moment of
\* cancellation.
C1_OnePerPortSorted ==
    pc = "returned" =>
        /\ Len(results) = Len(ports)
        /\ \A p \in PortValues :
               Occurrences(ResultPorts(results), p) = Occurrences(ports, p)
        /\ SortedByPort(results)

C1_Witness ==
    /\ pc = "returned"
    /\ parallel /\ threads = 2
    /\ ports = <<2, 1, 2>>
    /\ cancelled /\ ~flagAtStart
    /\ \E i \in DOMAIN results : results[i].open

\* C2: with the flag never set and targets that accept every attempt or fail
\* every attempt, scan_ip reports open = true exactly for the accepting
\* ports, in both modes and for every retry count.
C2_OpenIffAccepting ==
    (pc = "returned" /\ ~cancelled) =>
        \A i \in DOMAIN results :
            results[i].open <=> (world[results[i].port] = "accept")

C2_Witness ==
    /\ pc = "returned" /\ ~cancelled
    /\ retries = MaxRetries
    /\ Len(results) = MaxLen
    /\ \E i \in DOMAIN results : results[i].open
    /\ \E i \in DOMAIN results : ~results[i].open

\* C3: when the flag is set before scan_ip is entered, no connection attempt
\* is started in either mode, and every result returned has open = false,
\* also for the ports that would accept.
C3_PresetFlagNoAttempt ==
    (pc # "idle" /\ flagAtStart) =>
        /\ attempts = 0
        /\ Connecting = {}
        /\ pc = "returned" => \A i \in DOMAIN results : ~results[i].open

C3_Witness ==
    /\ pc = "returned" /\ flagAtStart
    /\ parallel
    /\ Len(ports) = MaxLen
    /\ \E i \in DOMAIN ports : world[ports[i]] = "accept"

\* C4: with the flag never set, probe_port with retries = N against a target
\* that fails every attempt makes exactly N + 1 connection attempts and
\* returns false, for every N of a u8 (256 attempts at N = 255).
C4_ExactlyRetriesPlusOne ==
    (pc = "returned" /\ ~cancelled /\ world[ports[1]] = "refuse") =>
        /\ attempts = retries + 1
        /\ ~results[1].open

C4_Witness ==
    /\ pc = "returned" /\ ~cancelled
    /\ world[ports[1]] = "refuse"
    /\ retries = U8Max
    /\ attempts = U8Max + 1

\* C5: in parallel mode with worker count K, at most K probes are in their
\* blocking connection attempt at any moment, also for port sequences longer
\* than K.
C5_AtMostKConnecting ==
    (pc = "running" /\ parallel) => Cardinality(Connecting) <= threads

C5_Witness ==
    /\ pc = "running" /\ parallel
    /\ Len(ports) > threads
    /\ Cardinality(Connecting) = threads
    /\ threads = MaxThreads
    /\ Todo # {}

\* C6: a progress counter passed to scan_ip at 0 counts the ports accounted
\* for: it equals the number of ports whose closure has returned (open,
\* failed or skipped), never exceeds the number of ports, equals it when
\* scan_ip returns, and each step leaves it alone or adds one.
C6_CounterState ==
    (pc # "idle" /\ hasCounter) =>
        /\ progress_counter = Cardinality(Done)
        /\ progress_counter <= Len(ports)
        /\ pc = "returned" => progress_counter = Len(ports)

C6_CounterStep ==
    (pc = "running" /\ hasCounter) =>
        /\ progress_counter' >= progress_counter
        /\ progress_counter' <= progress_counter + 1

C6_CountsEachPortOnce == []C6_CounterState /\ [][C6_CounterStep]_vars

C6_Witness ==
    /\ pc = "returned" /\ hasCounter
    /\ parallel /\ threads = MaxThreads
    /\ progress_counter = MaxLen
    /\ cancelled /\ ~flagAtStart
    /\ \E i \in DOMAIN results : results[i].open
    /\ \E i \in DOMAIN results : ~results[i].open /\ world[results[i].port] = "accept"

\* What the texts say, read off the text itself.
SeparatorCount(s) == Cardinality({i \in DOMAIN s : s[i] = "-"})
SeparatorAt(s) == CHOOSE i \in DOMAIN s : s[i] = "-"
LeftOf(s) == SubSeq(s, 1, SeparatorAt(s) - 1)
RightOf(s) == SubSeq(s, SeparatorAt(s) + 1, Len(s))
IsDecimal(s) == s # <<>> /\ \A i \in DOMAIN s : s[i] \in Digits

RECURSIVE ValueOf(_)
ValueOf(s) ==
    IF s = <<>> THEN 0
    ELSE 10 * ValueOf(SubSeq(s, 1, Len(s) - 1)) + DigitVal(s[Len(s)])

ValidPair(a, b) == 1 <= a /\ a <= b /\ b <= U16Max
FromStrReturned == ppc \in {"ok", "failed", "expanded"}

\* C7: for 1 <= start <= end <= 65535 the text "start-end" parses to exactly
\* that start and end, and to_vec of the range has end - start + 1 elements,
\* begins with start, ends with end and rises by 1 at each step.
C7_ParseRoundTrip ==
    \A a \in Numbers, b \in Numbers :
        (ValidPair(a, b) /\ text = RangeTexts[a][b]) =>
            /\ FromStrReturned => parsed = Ok(a, b)
            /\ ppc = "expanded" =>
                   LET v == SubSeq(expanded, 1, Len(expanded))
                   IN  /\ Len(v) = b - a + 1
                       /\ v[1] = a
                       /\ v[Len(v)] = b
                       /\ \A i \in 1..(Len(v) - 1) : v[i + 1] = v[i] + 1

C7_Witness ==
    /\ ppc = "expanded"
    /\ text = RangeTexts[1][U16Max]
    /\ parsed = Ok(1, U16Max)
    /\ Len(expanded) = U16Max

\* The texts the specification names as rejected.
Rejected == {
    <<"0", "-", "1", "0">>,
    <<"1", "-", "0">>,
    <<"1", "0", "0", "-", "1">>,
    <<"a", "b", "c", "-", "1", "0">>,
    <<"1", "0">>,
    <<"1", "0", "-", "2", "0", "-", "3", "0">> }

RejectsNamed == (FromStrReturned /\ text \in Rejected) => ~parsed.ok
OkIsInRange == parsed.ok => ValidPair(parsed.start, parsed.end)

\* C8 as stated: from_str returns Err whenever the text does not split on
\* '-' into two parts, or a part is not a string of decimal digits, or a part
\* is 0, or start > end; the named texts are rejected and every Ok range has
\* 1 <= start <= end <= 65535.
C8_RejectsAsStated ==
    /\ (/\ FromStrReturned
        /\ \/ SeparatorCount(text) # 1
           \/ ~IsDecimal(LeftOf(text))
           \/ ~IsDecimal(RightOf(text))
           \/ ValueOf(LeftOf(text)) = 0
           \/ ValueOf(RightOf(text)) = 0
           \/ ValueOf(LeftOf(text)) > ValueOf(RightOf(text)))
       => ~parsed.ok
    /\ RejectsNamed
    /\ OkIsInRange

\* A part as from_str reads it: white space around, an optional '+', digits.
Numeral(s) ==
    \E i \in 1..Len(s), j \in 1..Len(s) :
        /\ i <= j
        /\ \A k \in 1..(i - 1) : s[k] \in Whitespace
        /\ \A k \in (j + 1)..Len(s) : s[k] \in Whitespace
        /\ \/ IsDecimal(SubSeq(s, i, j))
           \/ s[i] = "+" /\ IsDecimal(SubSeq(s, i + 1, j))

NumeralDigits(s) == SelectSeq(s, LAMBDA c : c \in Digits)

\* C8 as amended: from_str returns Err whenever the text does not split on
\* '-' into two parts, or a part, with the white space around it and one
\* leading '+' taken off, is not a string of decimal digits, or a part is 0,
\* or start > end; the named texts are rejected and every Ok range has
\* 1 <= start <= end <= 65535.
C8_RejectsMalformed ==
    /\ (/\ FromStrReturned
        /\ \/ SeparatorCount(text) # 1
           \/ ~Numeral(LeftOf(text))
           \/ ~Numeral(RightOf(text))
           \/ ValueOf(NumeralDigits(LeftOf(text))) = 0
           \/ ValueOf(NumeralDigits(RightOf(text))) = 0
           \/ ValueOf(NumeralDigits(LeftOf(text))) > ValueOf(NumeralDigits(RightOf(text))))
       => ~parsed.ok
    /\ RejectsNamed
    /\ OkIsInRange

C8_Witness ==
    /\ ppc = "failed"
    /\ text = <<"0", "-", "1", "0">>
    /\ parsed = Err(ErrRange)

\* C9: when both sides are decimal numbers and one of them is 0 or above
\* 65535, from_str fails with the range error "must be between 1 and 65535",
\* which is not the error of a side that is not a number.
C9_OutOfRangeIsRangeError ==
    /\ ErrRange \notin {ErrStart, ErrEnd}
    /\ (/\ FromStrReturned
        /\ SeparatorCount(text) = 1
        /\ IsDecimal(LeftOf(text))
        /\ IsDecimal(RightOf(text))
        /\ \/ ValueOf(LeftOf(text)) \notin 1..U16Max
           \/ ValueOf(RightOf(text)) \notin 1..U16Max)
       => parsed = Err(ErrRange)

\* C10: with no cancellation and targets that answer the same each time, a
\* second call of scan_ip with the same ports returns the list the first one
\* returned, whatever the mode, worker count and interleaving of either.
C10_SameListEveryCall ==
    (pc = "returned" /\ history # <<>>) => results = history[1]

C10_Witness ==
    /\ pc = "returned" /\ history # <<>>
    /\ parallel /\ threads = MaxThreads
    /\ ports = <<2, 1, 2>>
    /\ results = history[1]
    /\ \E i \in DOMAIN results : results[i].open
    /\ \E i \in DOMAIN results : ~results[i].open


\* C11: resolve_target returns, when the lookup succeeds with one address or
\* more, the distinct addresses of the lookup, each once and in strictly
\* ascending order of address (so the same list for every order and
\* multiplicity of the same addresses); it returns an error when the lookup
\* fails and when the lookup gives no address.
ResolveReturned == rspc \in {"ok", "failed"}
LookupSet == {lookup.addrs[i] : i \in 1..Len(lookup.addrs)}

C11_DistinctAscending ==
    ResolveReturned =>
        IF lookup.ok /\ lookup.addrs # <<>>
        THEN /\ rspc = "ok"
             /\ resolved.ok
             /\ {resolved.ips[i] : i \in 1..Len(resolved.ips)} = LookupSet
             /\ \A i, j \in 1..Len(resolved.ips) :
                    i < j => AddrLess(resolved.ips[i], resolved.ips[j])
        ELSE /\ rspc = "failed"
             /\ ~resolved.ok
             /\ resolved.err = IF lookup.ok THEN ErrNoAddress ELSE ErrLookup

\* A lookup that gives an address twice, out of order with another.
C11_Witness ==
    /\ rspc = "ok"
    /\ Len(lookup.addrs) = 3
    /\ lookup.addrs[1] = lookup.addrs[3]
    /\ AddrLess(lookup.addrs[2], lookup.addrs[1])
    /\ Len(resolved.ips) = 2

\* C14 as stated: every connection attempt begins while the flag is false.
C14_AttemptsBeginUnset == [][attempts' > attempts => ~cancelled]_vars

\* C14: once the flag is set no closure passes the check of the loop again,
\* so the only attempts that still begin are those of closures that had
\* passed the check before (each begins one, and the flag is not read between
\* the check and the connect call); setting the flag moves no closure, and an
\* attempt in flight when the flag is set ends with the answer of its target.
C14_Suppressed ==
    /\ cancelled =>
           \A i \in Indices :
               /\ jpc'[i] = "checked" => jpc[i] = "checked"
               /\ (jpc[i] = "connecting" /\ jpc'[i] = "done") =>
                      slots'[i].open = (world[ports[i]] = "accept")
    /\ attempts' # attempts =>
           \/ attempts' = 0
           \/ /\ attempts' = attempts + 1
              /\ \E i \in Indices : jpc[i] = "checked" /\ jpc'[i] = "connecting"
    /\ cancelled' # cancelled => jpc' = jpc /\ slots' = slots

C14_NoNewAttemptAfterCheck == [][C14_Suppressed]_vars

\* The flag is set during a scan, an attempt is in flight and ports are left.
C14_Witness ==
    /\ pc = "running"
    /\ cancelled /\ ~flagAtStart
    /\ Connecting # {}
    /\ Todo # {}

\* C16: probe_port with retries = N makes at most N + 1 connection attempts
\* in every execution, makes none after an attempt that succeeded, and
\* returns true if and only if an attempt succeeded (false otherwise: after
\* N + 1 failures or when it saw the flag set); it returns a bool on every
\* path.
C16_AtMostRetriesPlusOne ==
    /\ attempts <= retries + 1
    /\ succeeded # {} =>
           /\ Running = {}
           /\ pc = "running" => slots[1].open
    /\ pc = "returned" =>
           /\ results[1].open \in BOOLEAN
           /\ results[1].open <=> 1 \in succeeded
           /\ (~results[1].open /\ ~cancelled) => attempts = retries + 1

\* The second attempt succeeds and the passes left are not made.
C16_Witness ==
    /\ pc = "returned"
    /\ retries = U8Max
    /\ world[ports[1]] = "flaky"
    /\ attempts = 2
    /\ results[1].open

\* C17: whenever the flag is set, the results stay those of the probes: a
\* port is recorded open only if a connection attempt to it succeeded in
\* this scan, a port whose attempt succeeded (before the flag was set or
\* while it was) is open in the list scan_ip returns, and a port given up
\* because of the flag is recorded not open.
OpenResults(p) == {i \in DOMAIN results : results[i].port = p /\ results[i].open}
ClosedResults(p) == {i \in DOMAIN results : results[i].port = p /\ ~results[i].open}

C17_PartialResultsSound ==
    /\ succeeded \subseteq Done
    /\ \A i \in Done : slots[i].open <=> i \in succeeded
    /\ pc = "returned" =>
           \A p \in PortValues :
               /\ Cardinality(OpenResults(p))
                      = Cardinality({i \in succeeded : ports[i] = p})
               /\ Cardinality(ClosedResults(p))
                      = Cardinality({i \in Indices \ succeeded : ports[i] = p})

\* The flag was set in the middle of a parallel scan: one accepting port was
\* probed and is open, another accepting port was given up and is not.
C17_Witness ==
    /\ pc = "returned" /\ parallel
    /\ cancelled /\ ~flagAtStart
    /\ \E i, j \in Indices :
           /\ i < j
           /\ world[ports[i]] = "accept" /\ world[ports[j]] = "accept"
           /\ ~slots[i].open /\ slots[j].open

\* C15: after the flag is set during a scan, the only connection attempts
\* still completed are those of the closures that were at an attempt when it
\* was set (past the check of the loop, or in the connect call): there are at
\* most K of them in parallel mode and one in sequential mode, none joins
\* them, and every other port is recorded not open without an attempt,
\* however many ports are left and whatever the retry count.
AtAttempt(state) == state \in {"checked", "connecting"}

C15_Workers == IF parallel THEN threads ELSE 1

C15_Bound ==
    pc = "running" =>
        Cardinality({i \in Indices : AtAttempt(jpc[i])}) <= C15_Workers

C15_Step ==
    (cancelled /\ pc = "running" /\ jpc' # jpc) =>
        /\ \A i \in Indices :
               IF AtAttempt(jpc[i])
               THEN jpc'[i] # jpc[i] =>
                        \/ jpc[i] = "checked" /\ jpc'[i] = "connecting"
                        \/ jpc[i] = "connecting" /\ jpc'[i] \in {"loop", "done"}
               ELSE /\ ~AtAttempt(jpc'[i])
                    /\ (jpc'[i] = "done" /\ jpc[i] # "done") =>
                           ~slots'[i].open /\ attempts' = attempts
        /\ attempts' # attempts =>
               /\ attempts' = attempts + 1
               /\ \E i \in Indices : jpc[i] = "checked" /\ jpc'[i] = "connecting"

C15_OneAttemptPerWorker == []C15_Bound /\ [][C15_Step]_vars

\* Cancelled in the middle of a parallel scan with retries: it returned with
\* fewer attempts than ports.
C15_Witness ==
    /\ pc = "returned" /\ parallel
    /\ cancelled /\ ~flagAtStart
    /\ retries = MaxRetries
    /\ Len(ports) = MaxLen
    /\ attempts >= 1
    /\ attempts < Len(ports)

\* C12: the cancellation flag only goes from false to true: a step that
\* changes it is a run of the interrupt handler, which sets it and moves
\* neither main nor a probe nor the progress thread; no step of probe_port,
\* scan_ip, the progress thread or main writes it, and once true it stays
\* true to the end of the run.
C12_FlagStep ==
    /\ cancelled => cancelled'
    /\ cancelled' # cancelled =>
           /\ cancelled'
           /\ UNCHANGED <<inputs, call, progress_counter, jpc, jleft, slots,
                          attempts, succeeded>>
           /\ UNCHANGED <<parseVars, resolveVars, mainVars>>

C12_FlagMonotonic == [][C12_FlagStep]_vars

\* A run interrupted in a scan with the progress thread: probes, the
\* progress thread and main went on to the end with the flag set.
C12_Witness ==
    /\ cancelled /\ ~flagAtStart
    /\ mpc = "exit"
    /\ hasCounter /\ rpc = "exited"
    /\ attempts > 0

\* C13: the addresses are scanned one after the other: while main is between
\* two addresses, and when it calls scan_ip for the next, every probe of the
\* address before has ended and its scan_ip has returned, the progress
\* thread of that address has ended, and its results are printed; probes run
\* only inside main's call of scan_ip; the counter of the next address is 0
\* when its scan is called.
C13_Between == mpc \in {"label", "check"} \/ (mpc = "loop" /\ ipIdx > 1)

C13_Sequential ==
    /\ C13_Between =>
           /\ pc = "returned"
           /\ Running = {} /\ Done = Indices
           /\ rpc \in {"none", "exited"}
    /\ mpc \in {"loop", "call", "scanning", "join", "label"} =>
           /\ Len(log) = ipIdx - 1
           /\ \A n \in 1..Len(log) :
                  /\ log[n].ip = ips_to_scan[n]
                  /\ Len(log[n].results) = Len(ports)
    /\ mpc = "call" =>
           /\ progress_counter = 0
           /\ Running = {}
           /\ ipIdx > 1 => pc = "returned"
    /\ (pc = "running" \/ Running # {}) => mpc = "scanning"

\* The second address is being probed, with the progress thread, after the
\* first was scanned and counted to the end.
C13_Witness ==
    /\ ipIdx = 2
    /\ mpc = "scanning"
    /\ hasCounter /\ rpc = "show"
    /\ Connecting # {}
    /\ progress_counter = 0
    /\ Len(log) = 1
    /\ Len(ports) = 2

\* C18: a run whose configuration is not valid makes no connection attempt:
\* when the ports text is not a port range, when the timeout is 0 ms, and
\* when the lookup of the target fails or gives no address, main ends with an
\* error and scan_ip was never called.
C18_TextValid ==
    /\ SeparatorCount(text) = 1
    /\ Numeral(LeftOf(text)) /\ Numeral(RightOf(text))
    /\ ValidPair(ValueOf(NumeralDigits(LeftOf(text))),
                 ValueOf(NumeralDigits(RightOf(text))))

C18_Invalid ==
    \/ ~C18_TextValid
    \/ timeout_ms = 0
    \/ ~lookup.ok
    \/ lookup.addrs = <<>>

C18_NoProbeWhenInvalid ==
    C18_Invalid =>
        /\ pc = "idle"
        /\ attempts = 0
        /\ Running = {}
        /\ log = <<>>
        /\ mpc = "exit" => exit = "error"

\* A run with a good ports text and a good timeout whose lookup gives no
\* address has ended.
C18_Witness ==
    /\ mpc = "exit" /\ exit = "error"
    /\ C18_TextValid
    /\ timeout_ms # 0
    /\ lookup.ok /\ lookup.addrs = <<>>

\* C19 as stated: when the flag is set as the scan of an address ends, the
\* results of that address are printed under the line "scan cancelled
\* (results may be incomplete)", no later address is scanned and main
\* returns Ok(()); when it is not set as the scan ends, the run goes on to
\* the next address (so a run ends only after its last address).
C19_AsScanEnds ==
    (mpc = "exit" /\ log # <<>>) =>
        /\ exit = "ok"
        /\ IF flagAtReturn
           THEN log[Len(log)].label = "cancelled"
           ELSE Len(log) = Len(ips_to_scan)

\* C19: when the flag is set as the scan of an address ends, the results of
\* that address are printed under the line "scan cancelled (results may be
\* incomplete)", no later address is scanned, and main returns Ok(()); when
\* main's check after the results reads the flag not set, the run goes on to
\* the next address.  The flag is read after the progress thread is joined
\* and again after the results: a flag set in between also ends the run.
C19_State ==
    /\ (pc = "running" \/ mpc \in {"loop", "call"}) =>
           \A n \in 1..Len(log) : log[n].label = "complete"
    /\ \A n \in 1..(Len(log) - 1) : log[n].label = "complete"
    /\ (mpc \in {"check", "exit"} /\ log # <<>> /\ flagAtReturn) =>
           log[Len(log)].label = "cancelled"
    /\ (mpc = "exit" /\ log # <<>>) =>
           /\ exit = "ok"
           /\ Len(log) = Len(ips_to_scan) \/ cancelled
           /\ flagAtReturn => Len(log) = ipIdx

C19_Step ==
    /\ (mpc = "label" /\ mpc' # mpc) =>
           /\ Len(log') = Len(log) + 1
           /\ log'[Len(log')].ip = ips_to_scan[ipIdx]
           /\ log'[Len(log')].results = results
           /\ log'[Len(log')].label = IF cancelled THEN "cancelled" ELSE "complete"
    /\ (mpc = "check" /\ mpc' # mpc) =>
           IF cancelled
           THEN mpc' = "exit" /\ exit' = "ok"
           ELSE mpc' = "loop" /\ ipIdx' = ipIdx + 1
    /\ (mpc = "loop" /\ mpc' # mpc) =>
           IF ipIdx <= Len(ips_to_scan)
           THEN mpc' = "call"
           ELSE mpc' = "exit" /\ exit' = "ok"

C19_StopsAfterCancelledAddress == []C19_State /\ [][C19_Step]_vars

\* Two addresses to scan, the flag set during the scan of the first: its
\* results are printed as possibly incomplete and main has returned Ok(()).
C19_Witness ==
    /\ mpc = "exit" /\ exit = "ok"
    /\ Len(ips_to_scan) = 2
    /\ ipIdx = 1
    /\ ~flagAtStart /\ flagAtReturn /\ attempts > 0
    /\ Len(log) = 1
    /\ log[1].label = "cancelled"

\* C20: under a fair scheduler and with connection attempts that end, every
\* call of scan_ip returns, in both modes, for every worker count and
\* whenever the flag is set; the progress thread ends once done or the flag
\* is set, so main's join returns; and main ends.
C20_Terminates ==
    /\ (pc = "running") ~> (pc = "returned")
    /\ (rpc \in {"load_done", "load_cancelled", "show"} /\ (done \/ cancelled))
           ~> (rpc = "exited")
    /\ (mpc = "join") ~> (mpc = "label")
    /\ <>(mpc = "exit")

\* A run over two addresses in parallel mode with the progress thread has
\* ended without an interrupt.
C20_Witness ==
    /\ mpc = "exit" /\ exit = "ok"
    /\ ~cancelled
    /\ parallel /\ threads = 2
    /\ hasCounter /\ rpc = "exited"
    /\ Len(log) = 2

====
